---- MODULE Spec2Model ----
\* Hierarchical retrieval engine (meddoc-query-engine): the indexing path
\* (DocumentProcessor, HierarchicalIndexing, PineconeIndexer) and the
\* retrieval path (HierarchicalRetriever, ScoreReranker, PineconeRetriever)
\* as one state machine over the two vector stores.
EXTENDS Integers, Sequences, FiniteSets, TLC

\* ---------------------------------------------------------------- bounds
\* index_pdf calls over a behaviour
MaxRuns == 2
\* batch sizes tried for PineconeIndexer.index_documents (1..MaxBatch)
MaxBatch == 2
\* longest expansion returned by the query expander
MaxSubQ == 2
\* largest top_n of a retrieval call
MaxTopN == 2
\* longest list of mock matches given to _get_page_ids
MaxMatches == 3
\* longest flat list given to ScoreReranker.rerank
MaxFlat == 3
\* most questions, and most chunks, of a page given to process_page
MaxArtifacts == 2
\* longest document list given to index_documents
MaxDocs == 3
\* highest score of a mock match
MaxScore == 3
\* index_pdf calls, completed or raised, over the indexing runs of a behaviour
MaxAttempts == 3
\* ingest_pdfs calls
MaxIngests == 3

\* ---------------------------------------------------------------- data
\* question strings and chunk strings stored in the relational store
QTexts == {"Q1", "Q2"}
CTexts == {"C1", "C2", "C3"}
\* sub-questions the expander returns for the user query "X"
SubQuestions == {"Q1", "Q2"}
PdfIds == {1, 2}

\* hashlib.sha256(text.encode()).hexdigest()[:16], on the strings of the
\* model; distinct strings get distinct digests (collision-free hash)
Sha16(text) ==
  CASE text = "Q1" -> "9d3a07c1"
    [] text = "Q2" -> "41f6b2e8"
    [] text = "C1" -> "c07d15aa"
    [] text = "C2" -> "2b9e64f0"
    [] text = "C3" -> "e85513bd"
    [] OTHER -> "0a0a0a0a"

\* EmbeddingService.embed on one text: a fixed vector per string
Embed(text) ==
  CASE text = "Q1" -> <<2, 1>>
    [] text = "Q2" -> <<0, 2>>
    [] text = "X"  -> <<1, 1>>
    [] text = "C1" -> <<1, 0>>
    [] text = "C2" -> <<0, 1>>
    [] text = "C3" -> <<0, 3>>
    [] OTHER -> <<0, 0>>

\* similarity score the vector store computes (dot product metric)
Score(u, v) == u[1] * v[1] + u[2] * v[2]

Min(a, b) == IF a < b THEN a ELSE b

\* pages of the relational store: PdfPages rows with their PageQuestions,
\* PageChunks and PageTags, as produced upstream.  Page ids are the
\* autoincrement primary keys (1, 2, ...).
Page(id, file_id, qs, cs, ts) ==
  [id |-> id, file_id |-> file_id, questions |-> qs, chunks |-> cs, tags |-> ts]

\* corpus 1: the two-page scenario plus a page that has chunks but no question
Corpus1 ==
  << Page(1, 1, <<"Q1">>, <<"C1", "C2">>, <<"t1">>),
     Page(2, 1, <<"Q2">>, <<"C3">>, <<"t1", "t2">>),
     Page(3, 2, <<>>, <<"C3">>, <<>>) >>
\* corpus 2: one page with two questions, repeated content, an empty page
Corpus2 ==
  << Page(1, 1, <<"Q1", "Q2">>, <<"C1">>, <<"t2">>),
     Page(2, 1, <<"Q1">>, <<"C1", "C3">>, <<>>),
     Page(3, 2, <<>>, <<>>, <<"t1">>) >>
Corpora == {Corpus1, Corpus2}

\* pdf.pages
PagesOf(db, pdf_id) == SelectSeq(db, LAMBDA p : p.file_id = pdf_id)

\* ---------------------------------------------------------------- indexing
\* f"q-{page.id}-{hash}" / f"c-{page.id}-{hash}"
DocId(prefix, page_id, text) == <<prefix, page_id, Sha16(text)>>

\* QuestionDoc with the id built from the pdf id instead of the page id
QuestionDoc_pdf(page, pdf_id, i) ==
  [id |-> DocId("q", pdf_id, page.questions[i]),
   question |-> page.questions[i],
   tags |-> page.tags, page_id |-> page.id, pdf_id |-> pdf_id]

QuestionDoc(page, pdf_id, i) ==
  [id |-> DocId("q", page.id, page.questions[i]),
   question |-> page.questions[i],
   tags |-> page.tags, page_id |-> page.id, pdf_id |-> pdf_id]

ChunkDoc(page, pdf_id, i) ==
  [id |-> DocId("c", page.id, page.chunks[i]),
   chunk |-> page.chunks[i],
   tags |-> page.tags, page_id |-> page.id, pdf_id |-> pdf_id]

\* process_page with the two loops in the other order
process_page_swapped(page, pdf_id) ==
  [i \in 1..Len(page.chunks) |-> ChunkDoc(page, pdf_id, i)]
    \o [i \in 1..Len(page.questions) |-> QuestionDoc(page, pdf_id, i)]

\* DocumentProcessor.process_page
process_page(page, pdf_id) ==
  [i \in 1..Len(page.questions) |-> QuestionDoc(page, pdf_id, i)]
    \o [i \in 1..Len(page.chunks) |-> ChunkDoc(page, pdf_id, i)]

RECURSIVE AllDocs(_, _)
\* HierarchicalIndexer.index_pdf: all_docs.extend(process_page(page, pdf.id))
AllDocs(pages, pdf_id) ==
  IF pages = <<>> THEN <<>>
  ELSE process_page(Head(pages), pdf_id) \o AllDocs(Tail(pages), pdf_id)

\* HierarchicalIndexing.index: the two comprehensions
QuestionsOf(documents) == SelectSeq(documents, LAMBDA d : "question" \in DOMAIN d)
ChunksOf(documents) == SelectSeq(documents, LAMBDA d : "chunk" \in DOMAIN d)

\* chunked with the slice one element short: iterable[i:i + size - 1]
chunked_short(iterable, size) ==
  [b \in 1..((Len(iterable) + size - 1) \div size) |->
     SubSeq(iterable, (b - 1) * size + 1, Min(b * size, Len(iterable)) - 1)]

\* PineconeIndexer.chunked: iterable[i:i + size] for i in range(0, len, size)
chunked(iterable, size) ==
  [b \in 1..((Len(iterable) + size - 1) \div size) |->
     SubSeq(iterable, (b - 1) * size + 1, Min(b * size, Len(iterable)))]

\* metadata_keys without the tags, as the chunk indexer of
\* hierarchical_rag/indexer.py has them, given to both indexers
MetadataKeys_untagged == {"page_id", "pdf_id"}

\* metadata_keys of the question indexer and of the chunk indexer
MetadataKeys == {"tags", "page_id", "pdf_id"}

\* one vector record of PineconeIndexer.index_documents
VectorRecord(doc, text_key, uuid) ==
  [id |-> uuid,
   values |-> Embed(doc[text_key]),
   metadata |-> [k \in (MetadataKeys \cap DOMAIN doc) \cup {text_key} |-> doc[k]]]

\* the pinecone_batch built for one batch; uuid.uuid4() hands out fresh ids
PineconeBatch(batch, text_key, used) ==
  [i \in 1..Len(batch) |-> VectorRecord(batch[i], text_key, used + i)]

RECURSIVE UpsertCalls(_, _, _)
\* the upsert calls of the loop of index_documents over the batches
UpsertCalls(batches, text_key, used) ==
  IF batches = <<>> THEN <<>>
  ELSE <<PineconeBatch(Head(batches), text_key, used)>>
         \o UpsertCalls(Tail(batches), text_key, used + Len(Head(batches)))

\* PineconeIndexer.index_documents(documents, batch_size): the sequence of
\* index.upsert calls it makes, after `used` uuids were handed out
index_documents(documents, text_key, batch_size, used) ==
  UpsertCalls(chunked(documents, batch_size), text_key, used)

Range(s) == {s[i] : i \in 1..Len(s)}

RECURSIVE Flatten(_)
Flatten(ss) == IF ss = <<>> THEN <<>> ELSE Head(ss) \o Flatten(Tail(ss))

\* index.upsert(vectors=...): insert, overwriting records with the same id
Upsert(store, vectors) ==
  {r \in store : \A i \in 1..Len(vectors) : vectors[i].id # r.id}
    \cup {vectors[i] : i \in {j \in 1..Len(vectors) :
                                \A k \in (j + 1)..Len(vectors) : vectors[k].id # vectors[j].id}}

\* ---------------------------------------------------------------- retrieval
\* filter=None of PineconeRetriever.retrieve
NoFilter == [k \in {} |-> 0]

\* the vector store's metadata filter: exact match on every filtered field
Passes(record, filter) ==
  \A k \in DOMAIN filter :
     k \in DOMAIN record.metadata /\ record.metadata[k] = filter[k]

\* a retrieval match of index.query
Match(record, vector) ==
  [id |-> record.id, score |-> Score(vector, record.values), metadata |-> record.metadata]

RECURSIVE TopMatches(_, _, _)
\* the responses index.query may give: the top_k nearest records in
\* descending score order, records of equal score in any order
TopMatches(records, vector, top_k) ==
  IF top_k = 0 \/ records = {} THEN {<<>>}
  ELSE LET best == {r \in records :
                      \A o \in records : Score(vector, o.values) <= Score(vector, r.values)}
       IN UNION {{<<Match(r, vector)>> \o t : t \in TopMatches(records \ {r}, vector, top_k - 1)} :
                 r \in best}

\* PineconeRetriever.retrieve once the query is embedded: the responses of
\* index.query under the filter (outcome "ok"), or [] when index.query
\* raised and the failure was logged (outcome "error")
Retrieve(store, query, top_k, filter, outcome) ==
  IF outcome = "error" THEN {<<>>}
  ELSE TopMatches({r \in store : Passes(r, filter)}, Embed(query), top_k)

QueryOutcomes == {"ok", "error"}

\* dict assignment d[key] = value on an insertion-ordered dict, held as a
\* sequence of <<key, value>> pairs
DictSet(d, key, value) ==
  IF \E i \in 1..Len(d) : d[i][1] = key
  THEN [i \in 1..Len(d) |-> IF d[i][1] = key THEN <<key, value>> ELSE d[i]]
  ELSE Append(d, <<key, value>>)

DictHas(d, key) == \E i \in 1..Len(d) : d[i][1] = key
DictGet(d, key) == d[CHOOSE i \in 1..Len(d) : d[i][1] = key][2]

RECURSIVE SortDesc_unstable(_, _)
\* the sort placing an item before the items of equal key already placed
SortDesc_unstable(pairs, n) ==
  IF n = 0 THEN <<>>
  ELSE LET done == SortDesc_unstable(pairs, n - 1)
           x == pairs[n]
           pos == Cardinality({i \in 1..Len(done) : done[i][2] > x[2]})
       IN SubSeq(done, 1, pos) \o <<x>> \o SubSeq(done, pos + 1, Len(done))

RECURSIVE SortDesc(_, _)
\* sorted(items, key=?, reverse=True) on a sequence of <<item, key>> pairs:
\* descending by key and stable (equal keys keep their order)
SortDesc(pairs, n) ==
  IF n = 0 THEN <<>>
  ELSE LET done == SortDesc(pairs, n - 1)
           x == pairs[n]
           pos == Cardinality({i \in 1..Len(done) : done[i][2] >= x[2]})
       IN SubSeq(done, 1, pos) \o <<x>> \o SubSeq(done, pos + 1, Len(done))

RECURSIVE PageScores_sum(_, _)
\* the loop of _get_page_ids adding the scores of a page up
PageScores_sum(matches, n) ==
  IF n = 0 THEN <<>>
  ELSE LET page_scores == PageScores_sum(matches, n - 1)
           match == matches[n]
       IN IF "page_id" \notin DOMAIN match.metadata THEN page_scores
          ELSE IF match.metadata.page_id = 0 THEN page_scores
          ELSE IF ~DictHas(page_scores, match.metadata.page_id)
               THEN DictSet(page_scores, match.metadata.page_id, match.score)
               ELSE DictSet(page_scores, match.metadata.page_id,
                            DictGet(page_scores, match.metadata.page_id) + match.score)

RECURSIVE PageScores(_, _)
\* the loop of _get_page_ids over the first n matches: page_scores
PageScores(matches, n) ==
  IF n = 0 THEN <<>>
  ELSE LET page_scores == PageScores(matches, n - 1)
           match == matches[n]
       IN IF "page_id" \notin DOMAIN match.metadata THEN page_scores
          ELSE IF match.metadata.page_id = 0 THEN page_scores
          ELSE IF ~DictHas(page_scores, match.metadata.page_id)
                  \/ match.score > DictGet(page_scores, match.metadata.page_id)
               THEN DictSet(page_scores, match.metadata.page_id, match.score)
               ELSE page_scores

\* HierarchicalRetriever._get_page_ids on the matches of the question index
PageIdsOf(matches) ==
  LET page_scores == PageScores(matches, Len(matches))
      sorted == SortDesc(page_scores, Len(page_scores))
  IN [i \in 1..Len(sorted) |-> sorted[i][1]]

\* _get_chunks querying the chunk index without the page filter
PageFilter_none(page_id) == NoFilter

\* filter={"page_id": page_id} of _get_chunks
PageFilter(page_id) == [page_id |-> page_id]

\* _get_chunks pairing every question with the pages of all questions
Pairs_cross(question_to_pages) ==
  LET pages == Flatten([i \in 1..Len(question_to_pages) |-> question_to_pages[i][2]])
  IN Flatten([i \in 1..Len(question_to_pages) |->
                [k \in 1..Len(pages) |-> <<question_to_pages[i][1], pages[k]>>]])

RECURSIVE Pairs_padded(_)
\* the loops of _get_chunks trying page 1 for a question that has no page
Pairs_padded(question_to_pages) ==
  IF question_to_pages = <<>> THEN <<>>
  ELSE LET e == Head(question_to_pages)
           page_ids == IF e[2] = <<>> THEN <<1>> ELSE e[2]
       IN [i \in 1..Len(page_ids) |-> <<e[1], page_ids[i]>>] \o Pairs_padded(Tail(question_to_pages))

RECURSIVE Pairs(_)
\* the (question, page_id) pairs the nested loops of _get_chunks visit
Pairs(question_to_pages) ==
  IF question_to_pages = <<>> THEN <<>>
  ELSE LET e == Head(question_to_pages)
       IN [i \in 1..Len(e[2]) |-> <<e[1], e[2][i]>>] \o Pairs(Tail(question_to_pages))

\* m["question"] = question
Annotate(m, question) ==
  [id |-> m.id, score |-> m.score, metadata |-> m.metadata, question |-> question]

\* rerank truncating before it sorts: sorted(results[:top_n], ...)
rerank_cut(results, top_n) ==
  LET cut == SubSeq(results, 1, Min(top_n, Len(results)))
      sorted == SortDesc([i \in 1..Len(cut) |-> <<cut[i], cut[i].score>>], Len(cut))
  IN [i \in 1..Len(sorted) |-> sorted[i][1]]

\* ScoreReranker.rerank
rerank(results, top_n) ==
  LET sorted == SortDesc([i \in 1..Len(results) |-> <<results[i], results[i].score>>],
                         Len(results))
  IN [i \in 1..Min(top_n, Len(sorted)) |-> sorted[i][1]]

\* the result entry carrying the question annotation of the match along
Entry_annotated(match) ==
  [chunk |-> match.metadata.chunk, page_id |-> match.metadata.page_id,
   pdf_id |-> match.metadata.pdf_id, score |-> match.score, question |-> match.question]

\* the result entry get_context_chunks builds from one match
Entry(match) ==
  [chunk |-> match.metadata.chunk, page_id |-> match.metadata.page_id,
   pdf_id |-> match.metadata.pdf_id, score |-> match.score]

\* lists of at most n sub-questions
Lists(n) == UNION {[1..k -> SubQuestions] : k \in 0..n}

TopKPages == 5
ChunksPerPage == 3

VARIABLES
  db,        \* the pages of the relational store
  qIndex,    \* question index: set of vector records
  cIndex,    \* chunk index: set of vector records
  uuids,     \* number of uuids handed out so far
  ixPc,      \* "idle" | "questions" | "chunks" | "indexed" : position inside index_pdf
  ixPdf,     \* pdf being indexed
  ixBatch,   \* batch_size of the running index_documents calls
  ixTodo,    \* batches of the running index_documents call not yet upserted
  ixRest,    \* chunk documents waiting for the chunk indexer
  ixSent,    \* documents upserted by the running index_pdf, in order
  ixBefore,  \* the two stores as they were when index_pdf was entered
  runs,      \* completed index_pdf calls per pdf
  fails,     \* index_pdf calls per pdf that raised
  ixErr,     \* "none" | "embed" | "upsert" : the call of the running index_pdf that failed
  indexed,   \* PdfFile.indexed of every pdf, as committed
  pending,   \* pdfs marked indexed in the open session, not yet committed
  allPc,     \* "idle" | "loop" | "ended" : position inside an indexing run
  allMode,   \* "index_all" | "index" : which indexing run it is
  allTodo,   \* files of the run not yet handled, in query order
  allFailed, \* files whose index_pdf raised in this run
  allOutcome, \* "none" | "returned" | "raised" : how the run ended for its caller
  rPc,       \* "idle" | "scope" | "fetch" | "rank" | "done" : stage of get_context_chunks
  rQuery,    \* the user query
  rTopN,     \* top_n, once stage 4 has read it
  rExpanded, \* what expander.expand returned
  questions, \* the sub-questions stages 2-4 work on
  rI,        \* next sub-question (stage 2) or pair (stage 3) to handle
  question_to_pages, \* the dict of stage 2, in insertion order
  all_chunks,        \* the flat list of stage 3
  top_chunks,        \* the reranked, truncated list
  rOut,      \* the list get_context_chunks returns
  qLog,      \* queries sent to the question index by this call, with the pages matched
  cLog,      \* queries sent to the chunk index by this call, with their responses
  rLlm,      \* "none" | "ok" | "error" : outcome of the language-model call of the expander
  rErr,      \* "none" | "embed" : the failure that ended the call
  fnPc,      \* "off" | "call" | "ret" : a single function called on its own
  fnIn,      \* its arguments
  fnOut,     \* its result
  folders,   \* the file system: the file names of every existing folder
  pdf_files, \* the committed rows of table pdf_files: id and filepath
  ingest,    \* per caller, the ingest_pdfs call in progress: position, files to do, session
  ingests    \* ingest_pdfs calls made

runVars == <<indexed, pending, allPc, allMode, allTodo, allFailed, allOutcome>>
ixVars == <<qIndex, cIndex, uuids, ixPc, ixPdf, ixBatch, ixTodo, ixRest, ixSent, ixBefore, runs,
            fails, ixErr, runVars>>
rVars == <<rPc, rQuery, rTopN, rExpanded, questions, rI, question_to_pages, all_chunks,
           top_chunks, rOut, qLog, cLog, rLlm, rErr>>
vars == <<db, qIndex, cIndex, uuids, ixPc, ixPdf, ixBatch, ixTodo, ixRest, ixSent, ixBefore, runs,
          fails, ixErr, indexed, pending, allPc, allMode, allTodo, allFailed, allOutcome,
          rPc, rQuery, rTopN, rExpanded, questions, rI, question_to_pages, all_chunks,
          top_chunks, rOut, qLog, cLog, rLlm, rErr, fnPc, fnIn, fnOut,
          folders, pdf_files, ingest, ingests>>
fnVars == <<fnPc, fnIn, fnOut>>
igVars == <<folders, pdf_files, ingest, ingests>>

\* no retrieval call in progress
RetrieverIdle ==
  /\ rPc = "idle"
  /\ rQuery = "X"
  /\ rTopN = 0
  /\ rExpanded = <<>>
  /\ questions = <<>>
  /\ rI = 1
  /\ question_to_pages = <<>>
  /\ all_chunks = <<>>
  /\ top_chunks = <<>>
  /\ rOut = <<>>
  /\ qLog = <<>>
  /\ cLog = <<>>
  /\ rLlm = "none"
  /\ rErr = "none"

TotalRuns == runs[1] + runs[2]
TotalFails == fails[1] + fails[2]

\* no indexing run in progress, no file indexed yet
RunIdle ==
  /\ fails = [p \in PdfIds |-> 0]
  /\ ixErr = "none"
  /\ indexed = [p \in PdfIds |-> FALSE]
  /\ pending = {}
  /\ allPc = "idle"
  /\ allMode = "index_all"
  /\ allTodo = <<>>
  /\ allFailed = {}
  /\ allOutcome = "none"

\* folders of the file system and the file names they may hold
Folders == {"inbox", "scans"}
FileNames == {"a.pdf", "b.pdf", "notes.txt"}
Callers == {1, 2}

\* str(file) of a file of a folder
FilePath(folder, name) == <<folder, name>>

\* no ingest_pdfs call in progress
NoIngest ==
  [pc |-> "idle", folder |-> "", pdf_files |-> <<>>, done |-> <<>>, added |-> <<>>, before |-> {}]

\* an empty table pdf_files, one folder holding a PDF and a text file, one
\* empty folder, no call in progress
IngestIdle ==
  /\ folders = [f \in Folders |-> IF f = "inbox" THEN {"a.pdf", "notes.txt"} ELSE {}]
  /\ pdf_files = {}
  /\ ingest = [c \in Callers |-> NoIngest]
  /\ ingests = 0

Init ==
  /\ db \in Corpora
  /\ qIndex = {}
  /\ cIndex = {}
  /\ uuids = 0
  /\ ixPc = "idle"
  /\ ixPdf = 0
  /\ ixBatch = 1
  /\ ixTodo = <<>>
  /\ ixRest = <<>>
  /\ ixSent = <<>>
  /\ ixBefore = [q |-> {}, c |-> {}]
  /\ runs = [p \in PdfIds |-> 0]
  /\ RunIdle
  /\ RetrieverIdle
  /\ IngestIdle
  /\ fnPc = "off"
  /\ fnIn = <<>>
  /\ fnOut = <<>>

\* HierarchicalIndexer.index_pdf entered: documents of all pages are built
\* and split; the question indexer is called first when there are questions
index_pdf(pdf_id, batch_size) ==
  LET docs == AllDocs(PagesOf(db, pdf_id), pdf_id)
      qs == QuestionsOf(docs)
      cs == ChunksOf(docs)
  IN /\ ixPc = "idle"
     /\ ixPdf' = pdf_id
     /\ ixBatch' = batch_size
     /\ ixSent' = <<>>
     /\ ixBefore' = [q |-> qIndex, c |-> cIndex]
     /\ ixErr' = "none"
     /\ IF qs # <<>>
        THEN /\ ixPc' = "questions"
             /\ ixTodo' = chunked(qs, batch_size)
             /\ ixRest' = cs
        ELSE /\ ixPc' = "chunks"
             /\ ixTodo' = IF cs # <<>> THEN chunked(cs, batch_size) ELSE <<>>
             /\ ixRest' = <<>>
     /\ rPc = "idle"
     /\ UNCHANGED igVars
     /\ UNCHANGED <<fnPc, fnIn, fnOut, db, qIndex, cIndex, uuids, runs, fails>>
     /\ UNCHANGED runVars
     /\ UNCHANGED rVars

\* index_pdf called on its own, outside an indexing run
IndexPdf(pdf_id, batch_size) ==
  /\ allPc = "idle"
  /\ TotalRuns < MaxRuns
  /\ index_pdf(pdf_id, batch_size)

\* one iteration of the loop of index_documents: embed, build, upsert
UpsertBatch ==
  /\ ixPc \in {"questions", "chunks"}
  /\ ixTodo # <<>>
  /\ LET batch == Head(ixTodo)
         text_key == IF ixPc = "questions" THEN "question" ELSE "chunk"
         vectors == PineconeBatch(batch, text_key, uuids)
     IN /\ IF ixPc = "questions"
           THEN qIndex' = Upsert(qIndex, vectors) /\ cIndex' = cIndex
           ELSE cIndex' = Upsert(cIndex, vectors) /\ qIndex' = qIndex
        /\ uuids' = uuids + Len(batch)
        /\ ixSent' = ixSent \o batch
        /\ ixTodo' = Tail(ixTodo)
  /\ UNCHANGED igVars
  /\ UNCHANGED <<fnPc, fnIn, fnOut, db, ixPc, ixPdf, ixBatch, ixRest, ixBefore, runs, fails, ixErr>>
  /\ UNCHANGED runVars
  /\ UNCHANGED rVars

\* the question indexer returned: HierarchicalIndexing.index goes on to the
\* chunk indexer
QuestionsIndexed ==
  /\ ixPc = "questions"
  /\ ixTodo = <<>>
  /\ ixPc' = "chunks"
  /\ ixTodo' = IF ixRest # <<>> THEN chunked(ixRest, ixBatch) ELSE <<>>
  /\ ixRest' = <<>>
  /\ UNCHANGED igVars
  /\ UNCHANGED <<fnPc, fnIn, fnOut, db, qIndex, cIndex, uuids, ixPdf, ixBatch, ixSent, ixBefore, runs,
                 fails, ixErr>>
  /\ UNCHANGED runVars
  /\ UNCHANGED rVars

\* the chunk indexer returned: index_pdf is complete
PdfIndexed ==
  /\ ixPc = "chunks"
  /\ ixTodo = <<>>
  /\ ixPc' = "indexed"
  /\ runs' = [runs EXCEPT ![ixPdf] = @ + 1]
  /\ UNCHANGED igVars
  /\ UNCHANGED <<fnPc, fnIn, fnOut, db, qIndex, cIndex, uuids, ixPdf, ixBatch, ixTodo, ixRest, ixSent,
                 ixBefore, fails, ixErr>>
  /\ UNCHANGED runVars
  /\ UNCHANGED rVars

\* index_pdf returns to its caller; the locals of the call are gone
IndexReturned ==
  /\ allPc = "idle"
  /\ ixPc = "indexed"
  /\ ixPc' = "idle"
  /\ ixPdf' = 0
  /\ ixBatch' = 1
  /\ ixSent' = <<>>
  /\ ixBefore' = [q |-> {}, c |-> {}]
  /\ UNCHANGED igVars
  /\ UNCHANGED <<fnPc, fnIn, fnOut, db, qIndex, cIndex, uuids, ixTodo, ixRest, runs, fails, ixErr>>
  /\ UNCHANGED runVars
  /\ UNCHANGED rVars

\* what `for q in questions` yields on a pydantic model: one (field name,
\* value) pair per field; the pair of the single field of TagList
FieldItem == "('tags', [...])"

\* the items the loops of get_context_chunks get from what expand returned:
\* the strings of a list, nothing from {}, the field pairs of a model object
Iterate(result) == IF result.model THEN <<FieldItem>> ELSE result.tags

\* get_context_chunks(query, top_n) entered; stage 1: questions =
\* expander.expand(query), any list of sub-questions, possibly empty.
\* A retrieval call and an index_pdf call each run to completion before the
\* next call starts: the two paths share only the vector stores.  The
\* argument top_n is read by stage 4 only and is drawn there.
Expand(expansion) ==
  /\ rPc = "idle"
  /\ ixPc = "idle"
  /\ allPc = "idle"
  /\ rPc' = "scope"
  /\ rQuery' = "X"
  /\ rTopN' = 0
  /\ rExpanded' = expansion
  /\ questions' = Iterate([model |-> FALSE, tags |-> expansion])
  /\ rI' = 1
  /\ question_to_pages' = <<>>
  /\ all_chunks' = <<>>
  /\ top_chunks' = <<>>
  /\ rOut' = <<>>
  /\ qLog' = <<>>
  /\ cLog' = <<>>
  /\ rLlm' = "none"
  /\ rErr' = "none"
  /\ UNCHANGED igVars
  /\ UNCHANGED <<fnPc, fnIn, fnOut, db>>
  /\ UNCHANGED ixVars

\* stage 2, one sub-question: question_to_pages[q] = self._get_page_ids(q)
ScopeQuestion ==
  /\ rPc = "scope"
  /\ rI <= Len(questions)
  /\ questions[rI] # FieldItem
  /\ LET q == questions[rI]
     IN \E outcome \in QueryOutcomes :
          \E matches \in Retrieve(qIndex, q, TopKPages, NoFilter, outcome) :
            /\ question_to_pages' = DictSet(question_to_pages, q, PageIdsOf(matches))
            /\ qLog' = Append(qLog, [query |-> q, top_k |-> TopKPages, filter |-> NoFilter,
                                      error |-> (outcome = "error"),
                                      pages |-> {matches[i].metadata.page_id : i \in 1..Len(matches)}])
  /\ rI' = rI + 1
  /\ UNCHANGED igVars
  /\ UNCHANGED <<fnPc, fnIn, fnOut, db, rPc, rQuery, rTopN, rExpanded, questions, all_chunks, top_chunks,
                 rOut, cLog, rLlm, rErr>>
  /\ UNCHANGED ixVars

\* stage 2 is over: _get_chunks(question_to_pages) is entered
Scoped ==
  /\ rPc = "scope"
  /\ rI > Len(questions)
  /\ rPc' = "fetch"
  /\ rI' = 1
  /\ UNCHANGED igVars
  /\ UNCHANGED <<fnPc, fnIn, fnOut, db, rQuery, rTopN, rExpanded, questions, question_to_pages, all_chunks,
                 top_chunks, rOut, qLog, cLog, rLlm, rErr>>
  /\ UNCHANGED ixVars

\* results.append(m) skipping a match whose record is already in the list
Collect_dedup(results, matches, question) ==
  results \o SelectSeq([i \in 1..Len(matches) |-> Annotate(matches[i], question)],
                       LAMBDA m : \A k \in 1..Len(results) : results[k].id # m.id)

\* the inner loop of _get_chunks: m["question"] = question; results.append(m)
Collect(results, matches, question) ==
  results \o [i \in 1..Len(matches) |-> Annotate(matches[i], question)]

\* FetchChunks with the annotation written to the stored record of the match
FetchChunks_writeback ==
  /\ rPc = "fetch"
  /\ rI <= Len(Pairs(question_to_pages))
  /\ LET question == Pairs(question_to_pages)[rI][1]
         page_id == Pairs(question_to_pages)[rI][2]
         filter == PageFilter(page_id)
     IN \E outcome \in QueryOutcomes :
          \E matches \in Retrieve(cIndex, question, ChunksPerPage, filter, outcome) :
            /\ all_chunks' = Collect(all_chunks, matches, question)
            /\ cLog' = Append(cLog, [query |-> question, top_k |-> ChunksPerPage, filter |-> filter,
                                      error |-> (outcome = "error"), matches |-> matches])
            /\ cIndex' = {IF \E i \in 1..Len(matches) : matches[i].id = r.id
                          THEN [r EXCEPT !.values = <<0, 0>>] ELSE r : r \in cIndex}
  /\ rI' = rI + 1
  /\ UNCHANGED igVars
  /\ UNCHANGED <<fnPc, fnIn, fnOut, db, rPc, rQuery, rTopN, rExpanded, questions, question_to_pages,
                 top_chunks, rOut, qLog, rLlm, rErr>>
  /\ UNCHANGED <<qIndex, uuids, ixPc, ixPdf, ixBatch, ixTodo, ixRest, ixSent, ixBefore, runs,
                 fails, ixErr, runVars>>

\* stage 3, one (question, page_id) pair: the chunk index is queried with the
\* page filter and every match is annotated and appended to the flat list
FetchChunks ==
  /\ rPc = "fetch"
  /\ rI <= Len(Pairs(question_to_pages))
  /\ LET question == Pairs(question_to_pages)[rI][1]
         page_id == Pairs(question_to_pages)[rI][2]
         filter == PageFilter(page_id)
     IN \E outcome \in QueryOutcomes :
          \E matches \in Retrieve(cIndex, question, ChunksPerPage, filter, outcome) :
            /\ all_chunks' = Collect(all_chunks, matches, question)
            /\ cLog' = Append(cLog, [query |-> question, top_k |-> ChunksPerPage, filter |-> filter,
                                      error |-> (outcome = "error"), matches |-> matches])
  /\ rI' = rI + 1
  /\ UNCHANGED igVars
  /\ UNCHANGED <<fnPc, fnIn, fnOut, db, rPc, rQuery, rTopN, rExpanded, questions, question_to_pages,
                 top_chunks, rOut, qLog, rLlm, rErr>>
  /\ UNCHANGED ixVars

\* stage 4: rerank to top_n, project, return
RankAndReturn(top_n) ==
  /\ rPc = "fetch"
  /\ rI > Len(Pairs(question_to_pages))
  /\ rPc' = "done"
  /\ rTopN' = top_n
  /\ top_chunks' = rerank(all_chunks, top_n)
  /\ rOut' = [i \in 1..Len(rerank(all_chunks, top_n)) |-> Entry(rerank(all_chunks, top_n)[i])]
  /\ UNCHANGED igVars
  /\ UNCHANGED <<fnPc, fnIn, fnOut, db, rQuery, rExpanded, questions, rI, question_to_pages, all_chunks,
                 qLog, cLog, rLlm, rErr>>
  /\ UNCHANGED ixVars

\* the caller has the result; the transient structures of the call are gone
Returned ==
  /\ rPc = "done"
  /\ rPc' = "idle"
  /\ rQuery' = "X"
  /\ rTopN' = 0
  /\ rExpanded' = <<>>
  /\ questions' = <<>>
  /\ rI' = 1
  /\ question_to_pages' = <<>>
  /\ all_chunks' = <<>>
  /\ top_chunks' = <<>>
  /\ rOut' = <<>>
  /\ qLog' = <<>>
  /\ cLog' = <<>>
  /\ rLlm' = "none"
  /\ rErr' = "none"
  /\ UNCHANGED igVars
  /\ UNCHANGED <<fnPc, fnIn, fnOut, db>>
  /\ UNCHANGED ixVars

Next ==
  \/ \E p \in PdfIds, b \in 1..MaxBatch : IndexPdf(p, b)
  \/ UpsertBatch
  \/ QuestionsIndexed
  \/ PdfIndexed
  \/ IndexReturned
  \/ \E e \in Lists(MaxSubQ) : Expand(e)
  \/ ScopeQuestion
  \/ Scoped
  \/ FetchChunks
  \/ \E n \in 0..MaxTopN : RankAndReturn(n)
  \/ Returned

Spec == Init /\ [][Next]_vars

\* ---------------------------------------------------------------- indexing runs
\* the orders in which a query without ORDER BY may return a set of rows
Orders(S) == {f \in [1..Cardinality(S) -> S] : \A p \in S : \E i \in DOMAIN f : f[i] = p}

\* HierarchicalIndexer.index_all ("index_all") or the index workflow
\* ("index") entered: the session is opened and the files generated but not
\* yet indexed are selected
StartRun(mode, files) ==
  /\ allPc = "idle"
  /\ ixPc = "idle"
  /\ rPc = "idle"
  /\ files \in Orders({p \in PdfIds : ~indexed[p]})
  /\ allPc' = "loop"
  /\ allMode' = mode
  /\ allTodo' = files
  /\ allFailed' = {}
  /\ allOutcome' = "none"
  /\ pending' = {}
  /\ UNCHANGED igVars
  /\ UNCHANGED <<fnPc, fnIn, fnOut, db, qIndex, cIndex, uuids, ixPc, ixPdf, ixBatch, ixTodo, ixRest,
                 ixSent, ixBefore, runs, fails, ixErr, indexed>>
  /\ UNCHANGED rVars

\* the loop of the run: self.index_pdf(pdf) / indexer.index_file(file) on
\* the next file, inside the try
IndexNextFile(batch_size) ==
  /\ allPc = "loop"
  /\ allTodo # <<>>
  /\ TotalRuns + TotalFails < MaxAttempts
  /\ index_pdf(Head(allTodo), batch_size)

\* an iteration of index_documents in which the failure is logged and the
\* loop goes on with the next batch
BatchFails_swallowed(step) ==
  /\ ixPc \in {"questions", "chunks"}
  /\ ixTodo # <<>>
  /\ ixErr' = step
  /\ ixTodo' = Tail(ixTodo)
  /\ uuids' = IF step = "upsert" THEN uuids + Len(Head(ixTodo)) ELSE uuids
  /\ fails' = [fails EXCEPT ![ixPdf] = @ + 1]
  /\ UNCHANGED igVars
  /\ UNCHANGED <<fnPc, fnIn, fnOut, db, qIndex, cIndex, ixPc, ixPdf, ixBatch, ixRest, ixSent,
                 ixBefore, runs>>
  /\ UNCHANGED runVars
  /\ UNCHANGED rVars

\* an iteration of the loop of index_documents in which embedding_service.embed
\* (step "embed") or index.upsert (step "upsert") raises: nothing catches it
\* in index_documents, HierarchicalIndexing.index or index_pdf, so the call
\* ends there.  A failed upsert writes no record; the uuids of the batch were
\* drawn before it.
BatchFails(step) ==
  /\ ixPc \in {"questions", "chunks"}
  /\ ixTodo # <<>>
  /\ ixErr' = step
  /\ ixPc' = "raised"
  /\ uuids' = IF step = "upsert" THEN uuids + Len(Head(ixTodo)) ELSE uuids
  /\ fails' = [fails EXCEPT ![ixPdf] = @ + 1]
  /\ UNCHANGED igVars
  /\ UNCHANGED <<fnPc, fnIn, fnOut, db, qIndex, cIndex, ixPdf, ixBatch, ixTodo, ixRest, ixSent,
                 ixBefore, runs>>
  /\ UNCHANGED runVars
  /\ UNCHANGED rVars

\* the call on the file returned: the file is marked indexed; index_all
\* commits at once, the index workflow leaves the flag in the session
FileIndexed ==
  /\ allPc = "loop"
  /\ ixPc = "indexed"
  /\ IF allMode = "index_all"
     THEN /\ indexed' = [p \in PdfIds |-> indexed[p] \/ p \in pending \/ p = ixPdf]
          /\ pending' = {}
     ELSE /\ pending' = pending \cup {ixPdf}
          /\ indexed' = indexed
  /\ allTodo' = Tail(allTodo)
  /\ ixPc' = "idle"
  /\ ixPdf' = 0
  /\ ixBatch' = 1
  /\ ixSent' = <<>>
  /\ ixBefore' = [q |-> {}, c |-> {}]
  /\ UNCHANGED igVars
  /\ UNCHANGED <<fnPc, fnIn, fnOut, db, qIndex, cIndex, uuids, ixTodo, ixRest, runs, fails, ixErr,
                 allPc, allMode, allFailed, allOutcome>>
  /\ UNCHANGED rVars

\* the except branch marking the file indexed all the same
FileFailed_marked ==
  /\ allPc = "loop"
  /\ ixPc = "raised"
  /\ pending' = {}
  /\ indexed' = [indexed EXCEPT ![ixPdf] = TRUE]
  /\ allFailed' = allFailed \cup {ixPdf}
  /\ allTodo' = Tail(allTodo)
  /\ ixPc' = "idle"
  /\ ixPdf' = 0
  /\ ixBatch' = 1
  /\ ixTodo' = <<>>
  /\ ixRest' = <<>>
  /\ ixSent' = <<>>
  /\ ixBefore' = [q |-> {}, c |-> {}]
  /\ ixErr' = "none"
  /\ UNCHANGED igVars
  /\ UNCHANGED <<fnPc, fnIn, fnOut, db, qIndex, cIndex, uuids, runs, fails,
                 allPc, allMode, allOutcome>>
  /\ UNCHANGED rVars

\* the call on the file raised: the except branch logs the failure and rolls
\* the session back; the loop goes on with the next file
FileFailed ==
  /\ allPc = "loop"
  /\ ixPc = "raised"
  /\ pending' = {}
  /\ allFailed' = allFailed \cup {ixPdf}
  /\ allTodo' = Tail(allTodo)
  /\ ixPc' = "idle"
  /\ ixPdf' = 0
  /\ ixBatch' = 1
  /\ ixTodo' = <<>>
  /\ ixRest' = <<>>
  /\ ixSent' = <<>>
  /\ ixBefore' = [q |-> {}, c |-> {}]
  /\ ixErr' = "none"
  /\ UNCHANGED igVars
  /\ UNCHANGED <<fnPc, fnIn, fnOut, db, qIndex, cIndex, uuids, runs, fails, indexed,
                 allPc, allMode, allOutcome>>
  /\ UNCHANGED rVars

\* the loop is over: the session context manager commits and the run returns
\* to its caller
EndRun ==
  /\ allPc = "loop"
  /\ allTodo = <<>>
  /\ ixPc = "idle"
  /\ indexed' = [p \in PdfIds |-> indexed[p] \/ p \in pending]
  /\ pending' = {}
  /\ allPc' = "ended"
  /\ allOutcome' = "returned"
  /\ UNCHANGED igVars
  /\ UNCHANGED <<fnPc, fnIn, fnOut, db, qIndex, cIndex, uuids, ixPc, ixPdf, ixBatch, ixTodo, ixRest,
                 ixSent, ixBefore, runs, fails, ixErr, allMode, allTodo, allFailed>>
  /\ UNCHANGED rVars

\* the caller has the outcome of the run
RunReturned ==
  /\ allPc = "ended"
  /\ allPc' = "idle"
  /\ allMode' = "index_all"
  /\ allFailed' = {}
  /\ allOutcome' = "none"
  /\ UNCHANGED igVars
  /\ UNCHANGED <<fnPc, fnIn, fnOut, db, qIndex, cIndex, uuids, ixPc, ixPdf, ixBatch, ixTodo, ixRest,
                 ixSent, ixBefore, runs, fails, ixErr, indexed, pending, allTodo>>
  /\ UNCHANGED rVars

NextRun ==
  \/ \E m \in {"index_all", "index"}, f \in Orders(PdfIds) \cup Orders({1}) \cup Orders({2}) \cup {<<>>} :
       StartRun(m, f)
  \/ \E b \in 1..MaxBatch : IndexNextFile(b)
  \/ UpsertBatch
  \/ \E step \in {"embed", "upsert"} : BatchFails(step)
  \/ QuestionsIndexed
  \/ PdfIndexed
  \/ FileIndexed
  \/ FileFailed
  \/ EndRun
  \/ RunReturned

SpecRun == Init /\ [][NextRun]_vars

\* ---------------------------------------------------------------- retrieval with failures
\* what the language-model call of PromptRunner.generate may do: raise (also
\* on output that does not parse), or give a TagList with any list of tags
LlmOutcomes ==
  {[ok |-> FALSE, tags |-> <<>>]} \cup {[ok |-> TRUE, tags |-> t] : t \in Lists(MaxSubQ)}

\* generate giving an empty TagList instead of {} when the call raised
generate_empty_model(outcome) ==
  [model |-> TRUE, tags |-> IF outcome.ok THEN outcome.tags ELSE <<>>]

\* PromptRunner.generate with output_format TagList: response.output_parsed,
\* a TagList object, or {} when the call raised
generate(outcome) ==
  IF outcome.ok THEN [model |-> TRUE, tags |-> outcome.tags]
  ELSE [model |-> FALSE, tags |-> <<>>]

\* get_context_chunks entered with a PromptBasedExpander: expand returns what
\* questions_from_query got from generate, unchanged
ExpandByPrompt(outcome) ==
  /\ rPc = "idle"
  /\ ixPc = "idle"
  /\ allPc = "idle"
  /\ rPc' = "scope"
  /\ rQuery' = "X"
  /\ rTopN' = 0
  /\ rExpanded' = generate(outcome).tags
  /\ questions' = Iterate(generate(outcome))
  /\ rI' = 1
  /\ question_to_pages' = <<>>
  /\ all_chunks' = <<>>
  /\ top_chunks' = <<>>
  /\ rOut' = <<>>
  /\ qLog' = <<>>
  /\ cLog' = <<>>
  /\ rLlm' = IF outcome.ok THEN "ok" ELSE "error"
  /\ rErr' = "none"
  /\ UNCHANGED igVars
  /\ UNCHANGED <<fnPc, fnIn, fnOut, db>>
  /\ UNCHANGED ixVars

\* PineconeRetriever.retrieve, first statement: embedder.embed([query]) raises
\* (the service fails, or rejects an item that is not a string); the call is
\* outside the try, so the exception leaves retrieve, _get_page_ids or
\* _get_chunks, and get_context_chunks
EmbedFails ==
  /\ \/ rPc = "scope" /\ rI <= Len(questions)
     \/ rPc = "fetch" /\ rI <= Len(Pairs(question_to_pages))
  /\ rPc' = "raised"
  /\ rErr' = "embed"
  /\ UNCHANGED igVars
  /\ UNCHANGED <<fnPc, fnIn, fnOut, db, rQuery, rTopN, rExpanded, questions, rI, question_to_pages,
                 all_chunks, top_chunks, rOut, qLog, cLog, rLlm>>
  /\ UNCHANGED ixVars

\* the caller has the exception; the transient structures of the call are gone
RaisedToCaller ==
  /\ rPc = "raised"
  /\ rPc' = "idle"
  /\ rQuery' = "X"
  /\ rTopN' = 0
  /\ rExpanded' = <<>>
  /\ questions' = <<>>
  /\ rI' = 1
  /\ question_to_pages' = <<>>
  /\ all_chunks' = <<>>
  /\ top_chunks' = <<>>
  /\ rOut' = <<>>
  /\ qLog' = <<>>
  /\ cLog' = <<>>
  /\ rLlm' = "none"
  /\ rErr' = "none"
  /\ UNCHANGED igVars
  /\ UNCHANGED <<fnPc, fnIn, fnOut, db>>
  /\ UNCHANGED ixVars

\* all documents of a pdf
DocsOf(pages, pdf_id) == AllDocs(PagesOf(pages, pdf_id), pdf_id)

\* the engine after index_pdf has completed once on pdf 1 and then on pdf 2
InitQuery ==
  /\ db \in Corpora
  /\ LET d1 == DocsOf(db, 1)
         d2 == DocsOf(db, 2)
     IN /\ qIndex = Range(PineconeBatch(QuestionsOf(d1), "question", 0))
                      \cup Range(PineconeBatch(QuestionsOf(d2), "question", Len(d1)))
        /\ cIndex = Range(PineconeBatch(ChunksOf(d1), "chunk", Len(QuestionsOf(d1))))
                      \cup Range(PineconeBatch(ChunksOf(d2), "chunk", Len(d1) + Len(QuestionsOf(d2))))
        /\ uuids = Len(d1) + Len(d2)
  /\ ixPc = "idle"
  /\ ixPdf = 0
  /\ ixBatch = 1
  /\ ixTodo = <<>>
  /\ ixRest = <<>>
  /\ ixSent = <<>>
  /\ ixBefore = [q |-> {}, c |-> {}]
  /\ runs = [p \in PdfIds |-> 1]
  /\ RunIdle
  /\ RetrieverIdle
  /\ IngestIdle
  /\ fnPc = "off"
  /\ fnIn = <<>>
  /\ fnOut = <<>>

NextQuery ==
  \/ \E e \in Lists(MaxSubQ) : Expand(e)
  \/ \E o \in LlmOutcomes : ExpandByPrompt(o)
  \/ ScopeQuestion
  \/ Scoped
  \/ FetchChunks
  \/ EmbedFails
  \/ \E n \in 0..MaxTopN : RankAndReturn(n)
  \/ Returned
  \/ RaisedToCaller

SpecQuery == InitQuery /\ [][NextQuery]_vars

\* ---------------------------------------------------------------- single functions
\* the engine at rest: nothing indexed, no call in progress
Quiet ==
  /\ db = Corpus1
  /\ qIndex = {}
  /\ cIndex = {}
  /\ uuids = 0
  /\ ixPc = "idle"
  /\ ixPdf = 0
  /\ ixBatch = 1
  /\ ixTodo = <<>>
  /\ ixRest = <<>>
  /\ ixSent = <<>>
  /\ ixBefore = [q |-> {}, c |-> {}]
  /\ runs = [p \in PdfIds |-> 0]
  /\ RunIdle
  /\ RetrieverIdle
  /\ IngestIdle

SeqsUpTo(S, n) == UNION {[1..k -> S] : k \in 0..n}

\* matches a question index can return: a page id (a primary key of the
\* relational store, 1 or more) and a score, or metadata without a page_id
MockMatches ==
  {[id |-> 0, score |-> sc, metadata |-> [page_id |-> pg]] : pg \in 1..2, sc \in 1..MaxScore}
    \cup {[id |-> 0, score |-> 1, metadata |-> [question |-> "Q1"]]}

InitScope ==
  /\ Quiet
  /\ fnPc = "call"
  /\ fnIn \in SeqsUpTo(MockMatches, MaxMatches)
  /\ fnOut = <<>>

\* _get_page_ids on the matches the question retriever returned
GetPageIds ==
  /\ fnPc = "call"
  /\ fnPc' = "ret"
  /\ fnOut' = PageIdsOf(fnIn)
  /\ UNCHANGED fnIn
  /\ UNCHANGED <<db>>
  /\ UNCHANGED igVars
  /\ UNCHANGED ixVars
  /\ UNCHANGED rVars

NextScope == GetPageIds
SpecScope == InitScope /\ [][NextScope]_vars

\* matches whose metadata names any page id a vector record can carry,
\* the id 0 included
AnyMatches ==
  {[id |-> 0, score |-> sc, metadata |-> [page_id |-> pg]] : pg \in 0..2, sc \in 1..MaxScore}
    \cup {[id |-> 0, score |-> 1, metadata |-> [question |-> "Q1"]]}

InitScopeAny ==
  /\ Quiet
  /\ fnPc = "call"
  /\ fnIn \in SeqsUpTo(AnyMatches, MaxMatches)
  /\ fnOut = <<>>

SpecScopeAny == InitScopeAny /\ [][NextScope]_vars

\* flat-list matches: a chunk record id and a score
FlatMatches ==
  {[id |-> i, score |-> sc, metadata |-> [chunk |-> "C1", page_id |-> 1, pdf_id |-> 1],
    question |-> "Q1"] : i \in 1..2, sc \in 1..MaxScore}

InitRerank ==
  /\ Quiet
  /\ fnPc = "call"
  /\ fnIn \in [results : SeqsUpTo(FlatMatches, MaxFlat), top_n : 0..MaxTopN]
  /\ fnOut = <<>>

\* ScoreReranker.rerank(results, top_n)
Rerank ==
  /\ fnPc = "call"
  /\ fnPc' = "ret"
  /\ fnOut' = rerank(fnIn.results, fnIn.top_n)
  /\ UNCHANGED fnIn
  /\ UNCHANGED <<db>>
  /\ UNCHANGED igVars
  /\ UNCHANGED ixVars
  /\ UNCHANGED rVars

NextRerank == Rerank
SpecRerank == InitRerank /\ [][NextRerank]_vars

\* pages given to process_page
TagLists == {<<>>, <<"t1">>, <<"t1", "t2">>}
SomePages ==
  {Page(id, 1, qs, cs, ts) :
     id \in 1..2, qs \in SeqsUpTo(QTexts, MaxArtifacts),
     cs \in SeqsUpTo({"C1", "C2"}, MaxArtifacts), ts \in TagLists}

InitPage ==
  /\ Quiet
  /\ fnPc = "call"
  /\ fnIn \in [page : SomePages, pdf_id : PdfIds]
  /\ fnOut = <<>>

\* DocumentProcessor.process_page(page, pdf_id)
ProcessPage ==
  /\ fnPc = "call"
  /\ fnPc' = "ret"
  /\ fnOut' = process_page(fnIn.page, fnIn.pdf_id)
  /\ UNCHANGED fnIn
  /\ UNCHANGED <<db>>
  /\ UNCHANGED igVars
  /\ UNCHANGED ixVars
  /\ UNCHANGED rVars

NextPage == ProcessPage
SpecPage == InitPage /\ [][NextPage]_vars

\* chunk documents given to index_documents: those of corpus 1
DocPool == Range(ChunksOf(AllDocs(PagesOf(Corpus1, 1), 1) \o AllDocs(PagesOf(Corpus1, 2), 2)))

InitBatch ==
  /\ Quiet
  /\ fnPc = "call"
  /\ fnIn \in [documents : SeqsUpTo(DocPool, MaxDocs), size1 : 1..MaxBatch, size2 : 1..MaxBatch]
  /\ fnOut = <<>>

\* the chunk indexer's index_documents on the same documents with two batch
\* sizes, from the same state of the uuid source
IndexDocuments ==
  /\ fnPc = "call"
  /\ fnPc' = "ret"
  /\ fnOut' = [first |-> index_documents(fnIn.documents, "chunk", fnIn.size1, 0),
               second |-> index_documents(fnIn.documents, "chunk", fnIn.size2, 0)]
  /\ UNCHANGED fnIn
  /\ UNCHANGED <<db>>
  /\ UNCHANGED igVars
  /\ UNCHANGED ixVars
  /\ UNCHANGED rVars

NextBatch == IndexDocuments
SpecBatch == InitBatch /\ [][NextBatch]_vars

\* ---------------------------------------------------------------- deduplicating variant
\* hash(chunk_text) on the texts of the model: distinct texts, distinct values
Hash(text) ==
  CASE text = "" -> 0
    [] text = "C1" -> 11
    [] text = "C2" -> 12
    [] text = "C3" -> 13
    [] OTHER -> 19

\* match.get("metadata", {}).get(key, default)
MetaGet(match, key, default) ==
  IF "metadata" \in DOMAIN match /\ key \in DOMAIN match.metadata
  THEN match.metadata[key] ELSE default

\* key = f"{page_id}:{hash(chunk_text)}"
DedupKey(chunk) == <<MetaGet(chunk, "page_id", "None"), Hash(MetaGet(chunk, "chunk", ""))>>

RECURSIVE UniqueChunks_first(_, _)
\* the loop keeping the first match of a key whatever its score
UniqueChunks_first(chunks, n) ==
  IF n = 0 THEN <<>>
  ELSE LET unique_chunks == UniqueChunks_first(chunks, n - 1)
           chunk == chunks[n]
           key == DedupKey(chunk)
       IN IF ~DictHas(unique_chunks, key)
          THEN DictSet(unique_chunks, key, chunk)
          ELSE unique_chunks

RECURSIVE UniqueChunks(_, _)
\* the first loop of _rank_and_format_results over the first n chunks:
\* unique_chunks, an insertion-ordered dict
UniqueChunks(chunks, n) ==
  IF n = 0 THEN <<>>
  ELSE LET unique_chunks == UniqueChunks(chunks, n - 1)
           chunk == chunks[n]
           key == DedupKey(chunk)
       IN IF ~DictHas(unique_chunks, key) \/ chunk.score > DictGet(unique_chunks, key).score
          THEN DictSet(unique_chunks, key, chunk)
          ELSE unique_chunks

\* one entry of the list _rank_and_format_results returns
Format(match) ==
  [chunk |-> MetaGet(match, "chunk", ""),
   page_id |-> MetaGet(match, "page_id", 0),
   file_id |-> MetaGet(match, "pdf_id", 0),
   score |-> match.score,
   metadata |-> match.metadata]

\* HierarchicalRetriever._rank_and_format_results of workflows/retrieve.py
rank_and_format_results(chunks, top_n) ==
  LET unique_chunks == UniqueChunks(chunks, Len(chunks))
      sorted_chunks == SortDesc([i \in 1..Len(unique_chunks) |->
                                   <<unique_chunks[i][2], unique_chunks[i][2].score>>],
                                Len(unique_chunks))
  IN [i \in 1..Min(top_n, Len(sorted_chunks)) |-> Format(sorted_chunks[i][1])]

\* chunk matches of the variant: three (page, chunk text) pairs of one file,
\* each with any score
ChunkMatches ==
  {[id |-> 0, score |-> sc, metadata |-> [chunk |-> pc[2], page_id |-> pc[1], pdf_id |-> 1]] :
     pc \in {<<1, "C1">>, <<1, "C2">>, <<2, "C1">>}, sc \in 1..MaxScore}

InitDedup ==
  /\ Quiet
  /\ fnPc = "call"
  /\ fnIn \in [chunks : SeqsUpTo(ChunkMatches, MaxFlat), top_n : 0..MaxTopN]
  /\ fnOut = <<>>

\* _rank_and_format_results(chunks, top_n)
RankAndFormat ==
  /\ fnPc = "call"
  /\ fnPc' = "ret"
  /\ fnOut' = rank_and_format_results(fnIn.chunks, fnIn.top_n)
  /\ UNCHANGED fnIn
  /\ UNCHANGED <<db>>
  /\ UNCHANGED igVars
  /\ UNCHANGED ixVars
  /\ UNCHANGED rVars

NextDedup == RankAndFormat
SpecDedup == InitDedup /\ [][NextDedup]_vars

\* ---------------------------------------------------------------- API endpoint
\* result.get(key, default) on a dict
Get(d, key, default) == IF key \in DOMAIN d THEN d[key] ELSE default

\* RetrievalResult(...) as retrieve_endpoint builds it from one result
RetrievalResult(result) ==
  [chunk |-> Get(result, "chunk", ""),
   score |-> Get(result, "score", 0),
   page_id |-> Get(result, "page_id", 0),
   file_id |-> Get(result, "file_id", 0),
   metadata |-> Get(result, "metadata", <<>>)]

\* the entries get_context_chunks builds from matches of the chunk records
\* of corpus 1
ResultEntries ==
  {Entry([id |-> 0, score |-> sc,
          metadata |-> [chunk |-> d.chunk, page_id |-> d.page_id, pdf_id |-> d.pdf_id,
                        tags |-> d.tags]]) : d \in DocPool, sc \in 1..MaxScore}

\* the endpoint has the list the retreive workflow returned
InitEndpoint ==
  /\ Quiet
  /\ fnPc = "call"
  /\ fnIn \in [query : {"X"}, results : SeqsUpTo(ResultEntries, MaxFlat)]
  /\ fnOut = <<>>

\* retrieve_endpoint, from the return of retreive on: the results are
\* converted and the response is built
RetrieveEndpoint ==
  /\ fnPc = "call"
  /\ fnPc' = "ret"
  /\ fnOut' = [query |-> fnIn.query,
               results |-> [i \in 1..Len(fnIn.results) |-> RetrievalResult(fnIn.results[i])],
               total_results |-> Len(fnIn.results)]
  /\ UNCHANGED fnIn
  /\ UNCHANGED <<db>>
  /\ UNCHANGED igVars
  /\ UNCHANGED ixVars
  /\ UNCHANGED rVars

NextEndpoint == RetrieveEndpoint
SpecEndpoint == InitEndpoint /\ [][NextEndpoint]_vars

\* ---------------------------------------------------------------- ingestion
\* the filepath values of the rows of table pdf_files
Paths(rows) == {r.filepath : r \in rows}

\* folder.glob("*.pdf")
Glob(folder) == {FilePath(folder, n) : n \in folders[folder] \cap {"a.pdf", "b.pdf"}}

\* ingest_pdfs(db, folder_path) entered: a folder that does not exist raises
\* ValueError; a folder without PDF files returns at once; otherwise the
\* files are listed, in the order the file system gives, and a session opens
IngestStart(c, folder) ==
  /\ ingest[c].pc = "idle"
  /\ ingests < MaxIngests
  /\ ingests' = ingests + 1
  /\ IF folder \notin DOMAIN folders
     THEN ingest' = [ingest EXCEPT ![c] = [NoIngest EXCEPT !.pc = "raised", !.folder = folder]]
     ELSE IF Glob(folder) = {}
          THEN ingest' = [ingest EXCEPT ![c] = [NoIngest EXCEPT !.pc = "returned", !.folder = folder]]
          ELSE \E files \in Orders(Glob(folder)) :
                 ingest' = [ingest EXCEPT ![c] =
                              [pc |-> "loop", folder |-> folder, pdf_files |-> files,
                               done |-> <<>>, added |-> <<>>, before |-> Paths(pdf_files)]]
  /\ UNCHANGED <<folders, pdf_files>>
  /\ UNCHANGED <<fnPc, fnIn, fnOut, db>>
  /\ UNCHANGED ixVars
  /\ UNCHANGED rVars

\* the loop body adding every listed file without looking it up
IngestFile_unchecked(c) ==
  /\ ingest[c].pc = "loop"
  /\ ingest[c].pdf_files # <<>>
  /\ LET file == Head(ingest[c].pdf_files)
     IN ingest' = [ingest EXCEPT ![c].pdf_files = Tail(@), ![c].done = Append(@, file),
                                 ![c].added = Append(@, file)]
  /\ UNCHANGED <<folders, pdf_files, ingests>>
  /\ UNCHANGED <<fnPc, fnIn, fnOut, db>>
  /\ UNCHANGED ixVars
  /\ UNCHANGED rVars

\* one iteration of the loop: the row with this filepath is looked up among
\* the committed rows (the session does not flush before a query, and no
\* file is listed twice); if there is none, session.add(PdfFile(filepath))
IngestFile(c) ==
  /\ ingest[c].pc = "loop"
  /\ ingest[c].pdf_files # <<>>
  /\ LET file == Head(ingest[c].pdf_files)
         existing == \E r \in pdf_files : r.filepath = file
     IN ingest' = [ingest EXCEPT ![c].pdf_files = Tail(@), ![c].done = Append(@, file),
                                 ![c].added = IF existing THEN @ ELSE Append(@, file)]
  /\ UNCHANGED <<folders, pdf_files, ingests>>
  /\ UNCHANGED <<fnPc, fnIn, fnOut, db>>
  /\ UNCHANGED ixVars
  /\ UNCHANGED rVars

\* the session block ends: commit inserts the added rows under fresh ids; if
\* a filepath is in the table by now, the unique constraint fails the
\* commit, the session is rolled back and the exception is raised again
IngestCommit(c) ==
  /\ ingest[c].pc = "loop"
  /\ ingest[c].pdf_files = <<>>
  /\ LET added == ingest[c].added
     IN IF \E i \in 1..Len(added) : added[i] \in Paths(pdf_files)
        THEN /\ ingest' = [ingest EXCEPT ![c].pc = "raised"]
             /\ pdf_files' = pdf_files
        ELSE /\ ingest' = [ingest EXCEPT ![c].pc = "committed"]
             /\ pdf_files' = pdf_files \cup
                   {[id |-> Cardinality(pdf_files) + i, filepath |-> added[i]] : i \in 1..Len(added)}
  /\ UNCHANGED <<folders, ingests>>
  /\ UNCHANGED <<fnPc, fnIn, fnOut, db>>
  /\ UNCHANGED ixVars
  /\ UNCHANGED rVars

\* the caller has the return or the exception; the locals of the call are gone
IngestReturned(c) ==
  /\ ingest[c].pc \in {"committed", "returned", "raised"}
  /\ ingest' = [ingest EXCEPT ![c] = NoIngest]
  /\ UNCHANGED <<folders, pdf_files, ingests>>
  /\ UNCHANGED <<fnPc, fnIn, fnOut, db>>
  /\ UNCHANGED ixVars
  /\ UNCHANGED rVars

\* somebody puts a file into a folder
PutFile(folder, name) ==
  /\ name \notin folders[folder]
  /\ folders' = [folders EXCEPT ![folder] = @ \cup {name}]
  /\ UNCHANGED <<pdf_files, ingest, ingests>>
  /\ UNCHANGED <<fnPc, fnIn, fnOut, db>>
  /\ UNCHANGED ixVars
  /\ UNCHANGED rVars

NextIngest ==
  \/ \E c \in Callers, folder \in Folders \cup {"missing"} : IngestStart(c, folder)
  \/ \E c \in Callers : IngestFile(c)
  \/ \E c \in Callers : IngestCommit(c)
  \/ \E c \in Callers : IngestReturned(c)
  \/ \E folder \in Folders, name \in FileNames : PutFile(folder, name)

\* the engine at rest with the empty table and the folders of IngestIdle
InitIngest ==
  /\ Quiet
  /\ fnPc = "off"
  /\ fnIn = <<>>
  /\ fnOut = <<>>

SpecIngest == InitIngest /\ [][NextIngest]_vars

\* ---------------------------------------------------------------- properties
\* the (kind, page, content) triple and the id of every stored vector record
Stored ==
  {[kind |-> "question", page |-> r.metadata.page_id, content |-> r.metadata.question,
    id |-> r.id] : r \in qIndex}
    \cup {[kind |-> "chunk", page |-> r.metadata.page_id, content |-> r.metadata.chunk,
           id |-> r.id] : r \in cIndex}

\* C1: indexing is idempotent: when index_pdf has completed on a pdf that was
\* indexed before, the two vector stores hold exactly the records they held
\* when that call was entered (same ids, vectors, metadata; no new id).
C1_IndexingIdempotent ==
  (ixPc = "indexed" /\ runs[ixPdf] >= 2) => (qIndex = ixBefore.q /\ cIndex = ixBefore.c)

\* C2: fallback: when the expander returned no sub-question for query X, the
\* call works on the sub-question list [X]: once stage 2 is over the question
\* index has been queried exactly once, with X.
C2_FallbackToQuery ==
  (rPc \in {"fetch", "done"} /\ rExpanded = <<>>)
    => (questions = <<rQuery>> /\ Len(qLog) = 1 /\ qLog[1].query = rQuery)

\* the pages with a page_id among the matches, and the highest score of a page
FoundPages(matches) ==
  {matches[i].metadata.page_id :
     i \in {j \in 1..Len(matches) : "page_id" \in DOMAIN matches[j].metadata}}
BestScore(matches, pg) ==
  CHOOSE sc \in 1..MaxScore :
    /\ \E i \in 1..Len(matches) :
         /\ "page_id" \in DOMAIN matches[i].metadata
         /\ matches[i].metadata.page_id = pg /\ matches[i].score = sc
    /\ \A i \in 1..Len(matches) :
         ("page_id" \in DOMAIN matches[i].metadata /\ matches[i].metadata.page_id = pg)
           => matches[i].score <= sc

\* C3: page scoping uses max-aggregation: _get_page_ids returns every page_id
\* found in the matches exactly once, ordered by descending highest score of
\* the page; matches (1, 3), (1, 1), (2, 2) give [1, 2].
C3_MaxAggregation ==
  fnPc = "ret" =>
    /\ Range(fnOut) = FoundPages(fnIn)
    /\ \A i, j \in 1..Len(fnOut) : i # j => fnOut[i] # fnOut[j]
    /\ \A i, j \in 1..Len(fnOut) :
         i < j => BestScore(fnIn, fnOut[i]) >= BestScore(fnIn, fnOut[j])

\* a page seen twice, its higher score last, ranked by that score before a
\* page whose score lies between the two
C3_Witness ==
  /\ fnPc = "ret"
  /\ Len(fnIn) = 3
  /\ "page_id" \in DOMAIN fnIn[1].metadata /\ fnIn[1].metadata.page_id = 1 /\ fnIn[1].score = 1
  /\ "page_id" \in DOMAIN fnIn[2].metadata /\ fnIn[2].metadata.page_id = 2 /\ fnIn[2].score = 2
  /\ "page_id" \in DOMAIN fnIn[3].metadata /\ fnIn[3].metadata.page_id = 1 /\ fnIn[3].score = 3
  /\ fnOut = <<1, 2>>

C5_PageConfinement ==
  rPc = "done" =>
    \A i \in 1..Len(rOut) : \E j \in 1..Len(qLog) : rOut[i].page_id \in qLog[j].pages

\* a call returned entries while the chunk index holds a chunk of a page that
\* stage 2 did not surface
C5_Witness ==
  /\ rPc = "done"
  /\ rOut # <<>>
  /\ \E r \in cIndex : \A j \in 1..Len(qLog) : r.metadata.page_id \notin qLog[j].pages

\* how often a match occurs in a list
Count(list, m) == Cardinality({i \in 1..Len(list) : list[i] = m})

\* C6: rerank truncation: rerank returns min(top_n, |L|) entries of L, sorted
\* by score descending, and no entry left out has a score strictly greater
\* than an entry kept.
C6_RerankTruncation ==
  fnPc = "ret" =>
    LET L == fnIn.results
    IN /\ Len(fnOut) = Min(fnIn.top_n, Len(L))
       /\ \A i, j \in 1..Len(fnOut) : i < j => fnOut[i].score >= fnOut[j].score
       /\ \A m \in Range(fnOut) : Count(fnOut, m) <= Count(L, m)
       /\ \A m \in Range(L) :
            Count(fnOut, m) < Count(L, m) => \A i \in 1..Len(fnOut) : m.score <= fnOut[i].score

\* three matches in ascending score order cut to the two best
C6_Witness ==
  /\ fnPc = "ret"
  /\ Len(fnIn.results) = 3
  /\ fnIn.top_n = 2
  /\ fnIn.results[1].score < fnIn.results[2].score
  /\ fnIn.results[2].score < fnIn.results[3].score
  /\ fnOut = <<fnIn.results[3], fnIn.results[2]>>

\* C7: ids are deterministic: every document process_page builds has the id
\* "q"/"c" + page id + 16-hex-digit SHA-256 prefix of its content, so documents
\* of the same kind, page and content have the same id whatever their
\* position and the pdf_id.
C7_DeterministicIds ==
  fnPc = "ret" =>
    /\ \A i \in 1..Len(fnOut) :
         IF "question" \in DOMAIN fnOut[i]
         THEN fnOut[i].id = <<"q", fnIn.page.id, Sha16(fnOut[i].question)>>
         ELSE fnOut[i].id = <<"c", fnIn.page.id, Sha16(fnOut[i].chunk)>>
    /\ \A i, j \in 1..Len(fnOut) :
         /\ ("question" \in DOMAIN fnOut[i] /\ "question" \in DOMAIN fnOut[j]
               /\ fnOut[i].question = fnOut[j].question) => fnOut[i].id = fnOut[j].id
         /\ ("chunk" \in DOMAIN fnOut[i] /\ "chunk" \in DOMAIN fnOut[j]
               /\ fnOut[i].chunk = fnOut[j].chunk) => fnOut[i].id = fnOut[j].id

\* the same question twice on a page whose id differs from the pdf_id
C7_Witness ==
  /\ fnPc = "ret"
  /\ fnIn.page.questions = <<"Q1", "Q1">>
  /\ fnIn.pdf_id # fnIn.page.id
  /\ fnOut[1].id = fnOut[2].id

\* C8: the id of a stored vector record determines its (kind, page, content)
\* triple and the triple determines the id: two stored records have the same
\* id exactly when they have the same triple.
C8_IdDeterminesTriple ==
  \A a, b \in Stored :
    (a.id = b.id) <=> (a.kind = b.kind /\ a.page = b.page /\ a.content = b.content)

\* C9: process_page returns one document per question followed by one per
\* chunk, in artifact order, each with the page's tag list, page_id and
\* pdf_id; an empty page gives the empty list; the page and the stores are
\* left as they were.
C9_ProcessPage ==
  fnPc = "ret" =>
    LET page == fnIn.page
        nq == Len(page.questions)
    IN /\ Len(fnOut) = nq + Len(page.chunks)
       /\ \A i \in 1..nq :
            /\ DOMAIN fnOut[i] = {"id", "question", "tags", "page_id", "pdf_id"}
            /\ fnOut[i].question = page.questions[i]
       /\ \A i \in 1..Len(page.chunks) :
            /\ DOMAIN fnOut[nq + i] = {"id", "chunk", "tags", "page_id", "pdf_id"}
            /\ fnOut[nq + i].chunk = page.chunks[i]
       /\ \A i \in 1..Len(fnOut) :
            /\ fnOut[i].tags = page.tags
            /\ fnOut[i].page_id = page.id
            /\ fnOut[i].pdf_id = fnIn.pdf_id
       /\ (page.questions = <<>> /\ page.chunks = <<>>) => fnOut = <<>>
       /\ qIndex = {} /\ cIndex = {} /\ db = Corpus1

\* a page with two questions, two chunks and two tags gave four documents
C9_Witness ==
  /\ fnPc = "ret"
  /\ fnIn.page.questions = <<"Q2", "Q1">>
  /\ fnIn.page.chunks = <<"C1", "C2">>
  /\ fnIn.page.tags = <<"t1", "t2">>
  /\ Len(fnOut) = 4

\* C10: batch size is not a correctness parameter: with any two batch sizes
\* index_documents upserts the same records in the same order, one per
\* document in document order, and every batch but the last holds exactly
\* batch_size documents.
C10_BatchSizeIrrelevant ==
  fnPc = "ret" =>
    LET docs == fnIn.documents
        flat == Flatten(fnOut.first)
    IN /\ flat = Flatten(fnOut.second)
       /\ Len(flat) = Len(docs)
       /\ \A i \in 1..Len(flat) :
            /\ flat[i].metadata.chunk = docs[i].chunk
            /\ flat[i].metadata.page_id = docs[i].page_id
       /\ \A b \in 1..Len(fnOut.first) :
            /\ b < Len(fnOut.first) => Len(fnOut.first[b]) = fnIn.size1
            /\ Len(fnOut.first[b]) \in 1..fnIn.size1
       /\ \A b \in 1..Len(fnOut.second) :
            /\ b < Len(fnOut.second) => Len(fnOut.second[b]) = fnIn.size2
            /\ Len(fnOut.second[b]) \in 1..fnIn.size2

\* three documents upserted in three batches of one and in two batches
C10_Witness ==
  /\ fnPc = "ret"
  /\ Len(fnIn.documents) = 3
  /\ fnIn.size1 = 1 /\ fnIn.size2 = 2
  /\ Len(fnOut.first) = 3 /\ Len(fnOut.second) = 2

\* the records the running index_pdf call has added to the two stores
NewRecords == (qIndex \ ixBefore.q) \cup (cIndex \ ixBefore.c)

\* the vector record holds the text and the page of the document
RecordOf(r, doc) ==
  /\ r.metadata.page_id = doc.page_id
  /\ r.metadata.pdf_id = doc.pdf_id
  /\ IF "question" \in DOMAIN doc
     THEN "question" \in DOMAIN r.metadata /\ r.metadata.question = doc.question
     ELSE "chunk" \in DOMAIN r.metadata /\ r.metadata.chunk = doc.chunk

\* C11: batch failure semantics: when embed or upsert fails on a batch of
\* index_documents the call has raised, the records of both stores at entry
\* and those of the batches before the failed one are in the stores, and
\* the call has added no record of the failed batch or of a later one.
C11_BatchFailure ==
  ixErr # "none" =>
    LET docs == AllDocs(PagesOf(db, ixPdf), ixPdf)
    IN /\ ixPc = "raised"
       /\ ixTodo # <<>>
       /\ ixSent \o Flatten(ixTodo) \o ixRest = QuestionsOf(docs) \o ChunksOf(docs)
       /\ ixBefore.q \subseteq qIndex
       /\ ixBefore.c \subseteq cIndex
       /\ Cardinality(NewRecords) = Len(ixSent)
       /\ \A i \in 1..Len(ixSent) : \E r \in NewRecords : RecordOf(r, ixSent[i])
       /\ \A r \in NewRecords : \E i \in 1..Len(ixSent) : RecordOf(r, ixSent[i])

\* the upsert of a chunk batch failed after the question batches and one
\* chunk batch were upserted, with a further batch still to come
C11_Witness ==
  /\ ixErr = "upsert"
  /\ ixPc = "raised"
  /\ Len(ixTodo) >= 2
  /\ \E i \in 1..Len(ixSent) : "chunk" \in DOMAIN ixSent[i]
  /\ qIndex # {}
  /\ cIndex # {}

\* C12: indexing failures are surfaced: an indexing run in which the call on
\* a file raised does not return normally to its caller.
C12_FailureSurfaced ==
  (allPc = "ended" /\ allFailed # {}) => allOutcome = "raised"

\* C13: retry is safe: when index_pdf completes on a file on which an earlier
\* call raised, each store holds exactly one record per distinct document of
\* the file, as after a single run without failure.
C13_RetrySafe ==
  (ixPc = "indexed" /\ fails[ixPdf] >= 1) =>
    LET docs == AllDocs(PagesOf(db, ixPdf), ixPdf)
    IN /\ Cardinality({r \in qIndex : r.metadata.pdf_id = ixPdf})
            = Cardinality(Range(QuestionsOf(docs)))
       /\ Cardinality({r \in cIndex : r.metadata.pdf_id = ixPdf})
            = Cardinality(Range(ChunksOf(docs)))

\* C14: when the language-model call fails, the expander gives no
\* sub-question and does not raise, and the retrieval call goes through its
\* stages to a normal result, the empty list.
C14_ExpanderFailure ==
  (rLlm = "error") =>
    /\ rExpanded = <<>>
    /\ questions = <<>>
    /\ rPc \in {"scope", "fetch", "done"}
    /\ rErr = "none"
    /\ rPc = "done" => rOut = <<>>

\* the call returned the empty list after a failed language-model call,
\* over stores that hold records
C14_Witness ==
  /\ rLlm = "error"
  /\ rPc = "done"
  /\ rOut = <<>>
  /\ qIndex # {}
  /\ cIndex # {}

\* C15: in a call with several sub-questions, the failure of the query of one
\* sub-question (index.query raising, or the embedding of the sub-question
\* raising) does not abort the call.
C15_PartialFailure ==
  (rLlm = "none" /\ Len(questions) >= 2 /\ rErr = "embed") => rPc \in {"scope", "fetch", "done"}

\* every query of the call so far failed, and there was one
AllQueriesFailed ==
  /\ qLog # <<>>
  /\ \A i \in 1..Len(qLog) : qLog[i].error
  /\ \A i \in 1..Len(cLog) : cLog[i].error

\* C16: a call in which every query to the question index and to the chunk
\* index failed does not return a normal result.
C16_TotalFailureFatal ==
  AllQueriesFailed => rPc # "done"

\* C17: the retrieval path is read-only: no step of a retrieval call changes
\* the question index or the chunk index, whether the call goes on, returns
\* or raises.
C17_ReadOnly ==
  [][(rPc # "idle" \/ rPc' # "idle") => (qIndex' = qIndex /\ cIndex' = cIndex)]_vars

\* a call raised in stage 3 after chunk matches had been annotated and
\* collected
C17_Witness ==
  /\ rPc = "raised"
  /\ all_chunks # <<>>
  /\ \E i \in 1..Len(cLog) : cLog[i].error
  /\ cIndex # {}

\* the entries of a list that have a given score, in list order
WithScore(list, sc) == SelectSeq(list, LAMBDA m : m.score = sc)
IsPrefix(a, b) == Len(a) <= Len(b) /\ a = SubSeq(b, 1, Len(a))

\* C18: rerank is stable: the entries of the output that have the same score
\* are the first entries of that score of the flat list, in the order in
\* which they were appended.
C18_RerankStable ==
  fnPc = "ret" =>
    \A sc \in 1..MaxScore : IsPrefix(WithScore(fnOut, sc), WithScore(fnIn.results, sc))

\* two matches of equal score around a lower one come out in encounter order
C18_Witness ==
  /\ fnPc = "ret"
  /\ Len(fnIn.results) = 3
  /\ fnIn.top_n = 2
  /\ fnIn.results[1].score = fnIn.results[3].score
  /\ fnIn.results[1].id # fnIn.results[3].id
  /\ fnIn.results[2].score < fnIn.results[1].score
  /\ fnOut = <<fnIn.results[1], fnIn.results[3]>>

AllMatches == Flatten([i \in 1..Len(cLog) |-> cLog[i].matches])

\* C20: no deduplication: the flat list holds one candidate per match of
\* every chunk query, annotated with the sub-question of the query, also
\* when the same chunk was matched for another sub-question, and the output
\* has min(top_n, number of candidates) entries.
C20_NoDedup ==
  /\ all_chunks = Flatten([i \in 1..Len(cLog) |->
                             [k \in 1..Len(cLog[i].matches) |->
                                Annotate(cLog[i].matches[k], cLog[i].query)]])
  /\ rPc = "done" => Len(rOut) = Min(rTopN, Len(AllMatches))

\* the two entries returned are the same chunk record, matched for two
\* different sub-questions
C20_Witness ==
  /\ rPc = "done"
  /\ Len(top_chunks) = 2
  /\ top_chunks[1].id = top_chunks[2].id
  /\ top_chunks[1].question # top_chunks[2].question
  /\ rOut[1].chunk = rOut[2].chunk

\* C21: every entry get_context_chunks returns is built from the surviving
\* match at the same position of the reranked list and holds exactly the
\* chunk text, page_id and pdf_id of that match's metadata and the match's
\* score; no entry has the question annotation
C21_OutputProjection ==
  rPc = "done" =>
    /\ top_chunks = rerank(all_chunks, rTopN)
    /\ Len(rOut) = Len(top_chunks)
    /\ \A i \in 1..Len(rOut) :
         /\ DOMAIN rOut[i] = {"chunk", "page_id", "pdf_id", "score"}
         /\ rOut[i].chunk = top_chunks[i].metadata.chunk
         /\ rOut[i].page_id = top_chunks[i].metadata.page_id
         /\ rOut[i].pdf_id = top_chunks[i].metadata.pdf_id
         /\ rOut[i].score = top_chunks[i].score
         /\ "question" \in DOMAIN top_chunks[i]

\* a call returned two entries built from matches of different chunks
C21_Witness ==
  /\ rPc = "done"
  /\ Len(rOut) = 2
  /\ rOut[1].chunk # rOut[2].chunk
  /\ top_chunks[1].question \in SubQuestions

\* the question documents and the chunk documents of every file of the
\* relational store
AllQuestionDocs == Range(QuestionsOf(DocsOf(db, 1) \o DocsOf(db, 2)))
AllChunkDocs == Range(ChunksOf(DocsOf(db, 1) \o DocsOf(db, 2)))

\* the record carries the document's page_id, pdf_id and text under the
\* text key, and the vector of that text
Carries(r, doc, text_key) ==
  /\ {"page_id", "pdf_id", text_key} \subseteq DOMAIN r.metadata
  /\ r.metadata.page_id = doc.page_id
  /\ r.metadata.pdf_id = doc.pdf_id
  /\ r.metadata[text_key] = doc[text_key]
  /\ r.values = Embed(doc[text_key])

\* C22: every record index_documents has upserted carries the page_id and
\* pdf_id of its source document and the embedded text under the text key,
\* a question record also the tag list of the page, each equal to the
\* document's value; every document sent by the running call has such a
\* record; and the entry retrieval projects from a match of a chunk record
\* has the chunk text, page_id and pdf_id of that document
C22_RecordMetadata ==
  LET question_docs == AllQuestionDocs
      chunk_docs == AllChunkDocs
      new == NewRecords
  IN /\ \A r \in qIndex : \E doc \in question_docs :
          /\ Carries(r, doc, "question")
          /\ "tags" \in DOMAIN r.metadata
          /\ r.metadata.tags = doc.tags
     /\ \A r \in cIndex : \E doc \in chunk_docs :
          /\ Carries(r, doc, "chunk")
          /\ Entry(Match(r, Embed("X"))).chunk = doc.chunk
          /\ Entry(Match(r, Embed("X"))).page_id = doc.page_id
          /\ Entry(Match(r, Embed("X"))).pdf_id = doc.pdf_id
     /\ \A i \in 1..Len(ixSent) : \E r \in new :
          Carries(r, ixSent[i], IF "question" \in DOMAIN ixSent[i] THEN "question" ELSE "chunk")

\* the calls on both files completed after an earlier call had failed: the
\* question index holds tagged records of two pages, the chunk index
\* records of both files
C22_Witness ==
  /\ \A p \in PdfIds : runs[p] >= 1
  /\ \E p \in PdfIds : fails[p] >= 1
  /\ \E r1, r2 \in qIndex : r1.metadata.page_id # r2.metadata.page_id /\ r1.metadata.tags # <<>>
  /\ \E r1, r2 \in cIndex : r1.metadata.pdf_id # r2.metadata.pdf_id

\* C23: ingestion adds a path only if it is not already present: no two
\* rows of pdf_files have the same filepath, a commit inserts rows only for
\* paths the table did not have, a path is added to the session only when
\* no row has it, and a call that found every listed path in the table
\* when it started adds nothing and does not fail
C23_IngestOnce ==
  [][/\ \A r1, r2 \in pdf_files' : r1.filepath = r2.filepath => r1 = r2
     /\ \A r \in pdf_files' \ pdf_files : r.filepath \notin Paths(pdf_files)
     /\ \A c \in Callers :
          /\ Len(ingest'[c].added) > Len(ingest[c].added) =>
                ingest'[c].added[Len(ingest'[c].added)] \notin Paths(pdf_files)
          /\ (ingest'[c].folder \in Folders /\ Range(ingest'[c].done) \subseteq ingest'[c].before) =>
                (ingest'[c].added = <<>> /\ ingest'[c].pc # "raised")
          /\ (ingest[c].pc = "loop" /\ ingest'[c].pc = "committed" /\ ingest[c].added = <<>>) =>
                pdf_files' = pdf_files]_vars

\* a repeated call on a folder whose two PDF files were ingested before has
\* committed without adding a row
C23_Witness ==
  \E c \in Callers :
    /\ ingest[c].pc = "committed"
    /\ Len(ingest[c].done) = 2
    /\ Range(ingest[c].done) \subseteq ingest[c].before
    /\ ingest[c].added = <<>>
    /\ Cardinality(pdf_files) >= 2

\* C24: when the language model returned a list of question strings, the
\* sub-questions of the call are exactly those strings, and once stage 2 is
\* over the question index was queried once per string, in order, with that
\* string as the query text
C24_ExpansionUsed ==
  rLlm = "ok" =>
    /\ questions = rExpanded
    /\ rPc \in {"fetch", "done"} => [i \in 1..Len(qLog) |-> qLog[i].query] = rExpanded

\* the (page_id, chunk text) pairs of a list of matches or of entries
PairsIn(list) == {<<list[i].metadata.page_id, list[i].metadata.chunk>> : i \in 1..Len(list)}

\* the highest score the matches of a pair have
BestOf(list, pair) ==
  CHOOSE sc \in {list[i].score : i \in 1..Len(list)} :
    /\ \E i \in 1..Len(list) :
         list[i].score = sc /\ <<list[i].metadata.page_id, list[i].metadata.chunk>> = pair
    /\ \A i \in 1..Len(list) :
         <<list[i].metadata.page_id, list[i].metadata.chunk>> = pair => list[i].score <= sc

\* C25: the deduplicating variant returns at most one entry per (page_id,
\* chunk text) pair, the entry of a pair carries the highest score among
\* the matches of that pair, the entries are in descending score order, and
\* truncation comes after deduplication: the output has top_n entries, or
\* one per pair when there are fewer pairs, and no pair left out scores
\* higher than an entry
C25_DedupMaxScore ==
  fnPc = "ret" =>
    LET chunks == fnIn.chunks
        out == fnOut
    IN /\ \A i, j \in 1..Len(out) :
            (out[i].page_id = out[j].page_id /\ out[i].chunk = out[j].chunk) => i = j
       /\ \A i \in 1..Len(out) :
            /\ <<out[i].page_id, out[i].chunk>> \in PairsIn(chunks)
            /\ out[i].score = BestOf(chunks, <<out[i].page_id, out[i].chunk>>)
       /\ \A i, j \in 1..Len(out) : i < j => out[i].score >= out[j].score
       /\ Len(out) = Min(fnIn.top_n, Cardinality(PairsIn(chunks)))
       /\ \A pair \in PairsIn(chunks) \ PairsIn(out) :
            \A i \in 1..Len(out) : BestOf(chunks, pair) <= out[i].score

\* three matches, two of one pair with the higher score second, top_n 2:
\* both pairs are returned, the duplicated one with its higher score
C25_Witness ==
  /\ fnPc = "ret"
  /\ Len(fnIn.chunks) = 3
  /\ fnIn.top_n = 2
  /\ PairsIn(fnIn.chunks) = {<<1, "C1">>, <<2, "C1">>}
  /\ fnIn.chunks[1].metadata.page_id = 1 /\ fnIn.chunks[1].score = 1
  /\ fnIn.chunks[2].metadata.page_id = 1 /\ fnIn.chunks[2].score = 3
  /\ fnIn.chunks[3].score = 2
  /\ Len(fnOut) = 2
  /\ fnOut[1].score = 3

\* C26: a file on which the indexing call of a run completed, all its
\* documents upserted, is marked indexed when the run has ended, also when
\* the call on a later file of the run failed
C26_SuccessPersists ==
  allPc = "ended" => \A p \in PdfIds : runs[p] >= 1 => indexed[p]

\* the file has indexed = True, committed or set in the open session
Marked(p) == indexed[p] \/ p \in pending

\* C27: a file becomes marked indexed only at a step at which the indexing
\* call of the run on it has returned without error, having upserted every
\* question document and every chunk document of its pages; when the call
\* on a file failed the file is not marked, in the session or in the table,
\* and the next run selects exactly the files not indexed
C27_IndexedOnlyIfComplete ==
  [][/\ \A p \in PdfIds :
          (~Marked(p) /\ (indexed'[p] \/ p \in pending')) =>
            LET docs == DocsOf(db, p)
            IN /\ ixPc = "indexed" /\ ixPdf = p /\ ixErr = "none"
               /\ ixSent = QuestionsOf(docs) \o ChunksOf(docs)
               /\ Cardinality(NewRecords) = Len(ixSent)
               /\ \A i \in 1..Len(ixSent) : \E r \in NewRecords : RecordOf(r, ixSent[i])
     /\ \A p \in PdfIds : (indexed'[p] /\ ~indexed[p]) => (Marked(p) \/ (ixPc = "indexed" /\ ixPdf = p))
     /\ (ixPc = "raised" /\ ixPc' = "idle") => (~indexed'[ixPdf] /\ ixPdf \notin pending')
     /\ \A p \in allFailed' : ~indexed'[p] /\ p \notin pending'
     /\ (allPc = "idle" /\ allPc' = "loop") => Range(allTodo') = {p \in PdfIds : ~indexed[p]}]_vars

\* a run in which the call on file 1 failed and file 2 was indexed is over,
\* and the next run has selected file 1, and only file 1, again
C27_Witness ==
  /\ allPc = "loop"
  /\ allTodo = <<1>>
  /\ allFailed = {}
  /\ fails[1] >= 1
  /\ ~indexed[1]
  /\ indexed[2]
  /\ runs[2] = 1

\* C28: page scoping keeps every page a match names: the page_id of every
\* match whose metadata has one is in the list _get_page_ids returns,
\* whatever its value, and the list holds no other page
C28_EveryPageKept ==
  fnPc = "ret" =>
    /\ \A i \in 1..Len(fnIn) :
         "page_id" \in DOMAIN fnIn[i].metadata => fnIn[i].metadata.page_id \in Range(fnOut)
    /\ \A pg \in Range(fnOut) :
         \E i \in 1..Len(fnIn) :
           "page_id" \in DOMAIN fnIn[i].metadata /\ fnIn[i].metadata.page_id = pg

RECURSIVE PagesScoped(_)
\* the number of pages the first n queries of stage 2 found, each
\* occurrence of a sub-question counted on its own
PagesScoped(n) == IF n = 0 THEN 0 ELSE PagesScoped(n - 1) + Cardinality(qLog[n].pages)

\* C29: every occurrence of a sub-question is processed on its own: stage 3
\* has issued one chunk query per occurrence and page found for it, so a
\* sub-question the expansion holds k times has its chunk queries k times
C29_RepeatsProcessed ==
  rPc = "done" =>
    /\ Len(qLog) = Len(rExpanded)
    /\ Len(cLog) = PagesScoped(Len(qLog))
    /\ \A q \in Range(rExpanded) :
         Cardinality({i \in 1..Len(question_to_pages) : question_to_pages[i][1] = q})
           = Cardinality({i \in 1..Len(rExpanded) : rExpanded[i] = q})

\* C30: the source-document id survives to the API response: the response
\* has one result per entry the workflow returned, in order, and the file_id
\* of each result is the pdf_id of its entry
C30_FileIdIsPdfId ==
  fnPc = "ret" =>
    /\ Len(fnOut.results) = Len(fnIn.results)
    /\ \A i \in 1..Len(fnOut.results) : fnOut.results[i].file_id = fnIn.results[i].pdf_id

====
